---- MODULE Spec2Model ----
(***************************************************************************)
(* Model of scrape_and_summarize.py: the timeline collector                *)
(* (scrape_last_hours), the corpus file (save_tweets_txt / load_tweets),   *)
(* the chunker (chunk_text) and the map/reduce summarizer                  *)
(* (summarize_chunks, final_synthesis, summarize_tweets_to_md, main).      *)
(*                                                                         *)
(* A Python str is a sequence of one-character strings; a character TLA+   *)
(* cannot write is named by its Python escape, "\\xe9" for U+00E9.         *)
(***************************************************************************)
EXTENDS Integers, Sequences, FiniteSets

VARIABLES
    \* ---- chunk_text(s, max_chars), called with two budgets on one text
    c_pc, s, max_chars, max_chars2, groups, groups2,
    \* ---- scrape_last_hours
    s_pc, page, hours_back, scroll, arts, rows, seen, shown, out,
    \* ---- main / summarize_tweets_to_md
    pc, entry, key, corpus_file, summary_file, summary0, scraped,
    max_chars_per_chunk, raw, chunks, per_chunk, md, io, calls, err

chunk_vars == <<c_pc, s, max_chars, max_chars2, groups, groups2>>
scrape_vars == <<s_pc, page, hours_back, scroll, arts, rows, seen, shown, out>>
pipe_vars == <<pc, entry, key, corpus_file, summary_file, summary0, scraped,
               max_chars_per_chunk, raw, chunks, per_chunk, md, io, calls, err>>
vars == <<chunk_vars, scrape_vars, pipe_vars>>

(***************************************************************************)
(* Strings                                                                 *)
(***************************************************************************)
LF == "\n"
CR == "\r"
SEP == <<LF, LF>>

\* Longest input text of the chunker runs.
MaxLen == 5
\* Largest chunk budget tried.
MaxBudget == 7

Chars == {"a", "\\xe9", LF, CR}

RECURSIVE SeqsUpTo(_, _)
SeqsUpTo(S, n) ==
    IF n = 0 THEN {<<>>}
    ELSE LET shorter == SeqsUpTo(S, n - 1)
         IN  shorter \cup {Append(t, x) : t \in {u \in shorter : Len(u) = n - 1}, x \in S}

\* len(x) of a str: code points.
PyLen(x) == Len(x)

\* The characters str.strip() removes (those with str.isspace() true).
PySpaces ==
    { " ", "\t", LF, "\\x0b", "\f", CR, "\\x1c", "\\x1d", "\\x1e", "\\x1f",
      "\\x85", "\\xa0", "\\u1680",
      "\\u2000", "\\u2001", "\\u2002", "\\u2003", "\\u2004", "\\u2005",
      "\\u2006", "\\u2007", "\\u2008", "\\u2009", "\\u200a",
      "\\u2028", "\\u2029", "\\u202f", "\\u205f", "\\u3000" }

\* A lone surrogate, U+D800: a code point UTF-8 cannot encode.
Surrogate == "\\ud800"

\* The characters UTF-8 encodes in one byte (U+0000..U+007F) that the model
\* names: the ASCII controls among the spaces and the printable ASCII.
OneByteChars ==
    { "\t", LF, "\\x0b", "\f", CR, "\\x1c", "\\x1d", "\\x1e", "\\x1f",
      " ", "!", "\"", "#", "$", "%", "&", "'", "(", ")", "*", "+", ",", "-", ".", "/",
      "0", "1", "2", "3", "4", "5", "6", "7", "8", "9", ":", ";", "<", "=", ">", "?",
      "@", "A", "B", "C", "D", "E", "F", "G", "H", "I", "J", "K", "L", "M", "N", "O",
      "P", "Q", "R", "S", "T", "U", "V", "W", "X", "Y", "Z", "[", "\\", "]", "^", "_",
      "a", "b", "c", "d", "e", "f", "g", "h", "i", "j", "k", "l", "m", "n", "o",
      "p", "q", "r", "s", "t", "u", "v", "w", "x", "y", "z", "{", "|", "}", "~" }
\* Two bytes (U+0080..U+07FF), three bytes (U+0800..U+FFFF without the
\* surrogates) and four bytes (from U+10000).
TwoByteChars == {"\\x85", "\\xa0", "\\xe9"}
ThreeByteChars == (PySpaces \ (OneByteChars \cup TwoByteChars)) \cup {"\\u20ac"}
FourByteChars == {"\\U0001f600"}

\* len(c.encode("utf-8")): the serialized size in bytes.  A surrogate has
\* none: encode raises, and no arm below gives it a value.
Utf8Width(c) ==
    CASE c \in OneByteChars -> 1
      [] c \in TwoByteChars -> 2
      [] c \in ThreeByteChars -> 3
      [] c \in FourByteChars -> 4
RECURSIVE ByteLen(_)
ByteLen(x) == IF x = <<>> THEN 0 ELSE Utf8Width(Head(x)) + ByteLen(Tail(x))

\* "".join(xs)
RECURSIVE Concat(_)
Concat(xs) == IF xs = <<>> THEN <<>> ELSE Head(xs) \o Concat(Tail(xs))

\* sep.join(xs)
RECURSIVE Join(_, _)
Join(xs, sep) ==
    IF xs = <<>> THEN <<>>
    ELSE IF Len(xs) = 1 THEN xs[1]
    ELSE xs[1] \o sep \o Join(Tail(xs), sep)

\* str.strip(): whitespace removed at both ends.
IsSpace(c) == c \in PySpaces
RECURSIVE LStrip(_)
LStrip(x) == IF x # <<>> /\ IsSpace(Head(x)) THEN LStrip(Tail(x)) ELSE x
RECURSIVE RStrip(_)
RStrip(x) == IF x # <<>> /\ IsSpace(x[Len(x)]) THEN RStrip(SubSeq(x, 1, Len(x) - 1)) ELSE x
Strip(x) == RStrip(LStrip(x))

(***************************************************************************)
(* chunk_text                                                              *)
(***************************************************************************)
\* s.replace("\r\n", "\n"): leftmost, non-overlapping.
RECURSIVE ReplaceCRLF(_)
ReplaceCRLF(x) ==
    IF x = <<>> THEN <<>>
    ELSE IF Len(x) >= 2 /\ x[1] = CR /\ x[2] = LF
         THEN <<LF>> \o ReplaceCRLF(SubSeq(x, 3, Len(x)))
         ELSE <<x[1]>> \o ReplaceCRLF(Tail(x))

\* x.split("\n\n") continued, with the block being read in cur.
RECURSIVE SplitFrom(_, _)
SplitFrom(x, cur) ==
    IF x = <<>> THEN <<cur>>
    ELSE IF Len(x) >= 2 /\ x[1] = LF /\ x[2] = LF
         THEN <<cur>> \o SplitFrom(SubSeq(x, 3, Len(x)), <<>>)
         ELSE SplitFrom(Tail(x), Append(cur, x[1]))

\* s.split("\n\n"): always at least one block, "" for the empty text.
SplitBlocks(x) == SplitFrom(x, <<>>)

WithSeparator_Short(block) == block \o <<LF>>
\* block += "\n\n"
WithSeparator(block) == block \o SEP

NeedsFlush_Late(cur, total, blockLen, budget) ==
    cur # <<>> /\ total + blockLen > budget + 1
NeedsFlush_Flipped(cur, total, blockLen, budget) ==
    cur # <<>> /\ total + blockLen < budget
\* if cur and total + len(block) > max_chars
NeedsFlush(cur, total, blockLen, budget) ==
    cur # <<>> /\ total + blockLen > budget

\* The for loop of chunk_text over the remaining blocks.  A chunk is kept as
\* the list cur of its blocks (each with its separator); "".join(cur) is
\* taken by chunk_text below.
RECURSIVE ChunkLoop(_, _, _, _, _)
ChunkLoop(blocks, done, cur, total, budget) ==
    IF blocks = <<>>
    THEN IF cur # <<>> THEN Append(done, cur) ELSE done
    ELSE LET block == WithSeparator(Head(blocks))
         IN  IF NeedsFlush(cur, total, PyLen(block), budget)
             THEN ChunkLoop(Tail(blocks), Append(done, cur), <<block>>,
                            PyLen(block), budget)
             ELSE ChunkLoop(Tail(blocks), done, Append(cur, block),
                            total + PyLen(block), budget)

\* The chunks of chunk_text, each as the list of blocks joined into it.
ChunkGroups(x, budget) ==
    ChunkLoop(SplitBlocks(ReplaceCRLF(x)), <<>>, <<>>, 0, budget)

\* chunk_text(s, max_chars)
chunk_text(x, budget) ==
    LET g == ChunkGroups(x, budget) IN [i \in 1..Len(g) |-> Concat(g[i])]

(***************************************************************************)
(* scrape_last_hours                                                       *)
(***************************************************************************)
\* datetime.now(timezone.utc) at the call, in hours of the model's clock.
NowUtc == 3
\* Largest hours_back a run is called with.
MaxHoursBack == 2
\* The model's MAX_SCROLLS.
MaxScrolls == 3
\* Most articles one query_selector_all returns.
MaxArts == 3

Hrefs == {"/u/status/1", "/u/status/2"}
Times == 0..NowUtc

\* What the <time datetime=...> of an article yields:
\*   ok      an ISO-8601 string with Z or an offset: the instant t
\*   naive   an ISO-8601 string without offset: parses to a naive datetime
\*   bad     a string datetime.fromisoformat rejects
\*   noattr  a <time> element with no (or an empty) datetime attribute
\*   notime  no <time> element
DtValues ==
    {[k |-> "ok", t |-> t] : t \in Times}
    \cup {[k |-> kind, t |-> 0] : kind \in {"naive", "bad", "noattr", "notime"}}

\* The inner_text of the tweetText nodes of an article.
PartsChoices == { <<>>, << <<"a">> >>, << <<"a">>, <<>> >>, << <<"q", Surrogate>> >> }

ItemAttrs == [dt : DtValues, parts : PartsChoices]

\* An article without a status link, and the article of a timeline item.
NoLinkArticle == [link |-> FALSE, href |-> ""]
ItemArticle(h) == [link |-> TRUE, href |-> h]
Articles == {NoLinkArticle} \cup {ItemArticle(h) : h \in Hrefs}

\* cutoff = datetime.now(timezone.utc) - timedelta(hours=hours_back)
Cutoff == NowUtc - hours_back

\* ZoneInfo(OUTPUT_TZ): the UTC offset in force at an instant (the hour at
\* which summer time ends lies inside the model's clock range).
OffsetAt(t) == IF t < 2 THEN 2 ELSE 1

\* dt.astimezone(tz): the same instant, carried with the zone's offset.
AsTimezone(t) == [instant |-> t, utcoffset |-> OffsetAt(t)]

\* r["time"].isoformat(): local wall-clock time followed by the offset.
IsoFormat(z) == <<z.instant + z.utcoffset, z.utcoffset>>

IsStale_Inclusive(t, cutoff) == t <= cutoff
\* if dt < cutoff: continue
IsStale(t, cutoff) == t < cutoff

AlreadySeen_Never(h, seenSet) == FALSE
\* href in seen
AlreadySeen(h, seenSet) == h \in seenSet

\* "\n".join([inner_text ...]).strip() if parts else ""
ItemText(parts) == IF parts # <<>> THEN Strip(Join(parts, <<LF>>)) ELSE <<>>

\* {"time": dt.astimezone(tz), "text": text}.  The field href is a history
\* field recording the article a row was built from; the Python dict does
\* not hold it and no operation below reads it.
Row(h, t, text) == [time |-> AsTimezone(t), text |-> text, href |-> h]

\* The key of the dict comprehension of the final dedupe.
DedupeKey(r) == <<IsoFormat(r.time), r.text>>

\* One insertion d[key] = r into an insertion-ordered dict, kept as the
\* sequence of its values: a new key goes last, an old key keeps its place
\* and takes the new value.
DictPut(d, r) ==
    IF \E i \in 1..Len(d) : DedupeKey(d[i]) = DedupeKey(r)
    THEN [i \in 1..Len(d) |-> IF DedupeKey(d[i]) = DedupeKey(r) THEN r ELSE d[i]]
    ELSE Append(d, r)

RECURSIVE DictOf(_, _)
DictOf(rs, d) == IF rs = <<>> THEN d ELSE DictOf(Tail(rs), DictPut(d, Head(rs)))

\* list({(r["time"].isoformat(), r["text"]): r for r in rows}.values())
Dedupe(rs) == DictOf(rs, <<>>)

\* The wall-clock time of a zoned datetime.
WallClock(z) == z.instant + z.utcoffset

\* Two aware datetimes with the same tzinfo object (every row carries tz)
\* compare by their wall-clock fields; offset and fold are ignored.
RECURSIVE InsertDesc(_, _)
InsertDesc(acc, r) ==
    IF acc = <<>> THEN <<r>>
    ELSE IF WallClock(Head(acc).time) >= WallClock(r.time)
         THEN <<Head(acc)>> \o InsertDesc(Tail(acc), r)
         ELSE <<r>> \o acc

RECURSIVE SortFrom(_, _)
SortFrom(rs, acc) == IF rs = <<>> THEN acc ELSE SortFrom(Tail(rs), InsertDesc(acc, Head(rs)))

\* out.sort(key=lambda r: r["time"], reverse=True): stable, newest first.
SortDesc(rs) == SortFrom(rs, <<>>)

(***************************************************************************)
(* The corpus file and the generation service                              *)
(***************************************************************************)
OUT_TXT == "financialjuice_last_hours.txt"
\* max_chars_per_chunk as main passes it (and the parameter's default).
DefaultMaxChars == 15000

NoFile == [exists |-> FALSE, text |-> <<>>]
FileOf(text) == [exists |-> TRUE, text |-> text]

DigitChars == <<"0", "1", "2", "3", "4", "5", "6", "7", "8", "9">>

\* r["time"].strftime("%Y-%m-%d %H:%M:%S %Z"): every instant of the model
\* lies on one day, so the text is the local hour and the zone's name.
ZoneName(z) == IF z.utcoffset = 2 THEN <<"C", "E", "S", "T">> ELSE <<"C", "E", "T">>
Strftime(z) == <<DigitChars[z.instant + z.utcoffset + 1]>> \o <<" ">> \o ZoneName(z)

\* f"{...} | {r['text']}\n\n"
RowLine(r) == Strftime(r.time) \o <<" ", "|", " ">> \o r.text \o SEP

\* The text save_tweets_txt(rows, path) writes.
RECURSIVE save_tweets_txt(_)
save_tweets_txt(rs) ==
    IF rs = <<>> THEN <<>> ELSE RowLine(Head(rs)) \o save_tweets_txt(Tail(rs))

\* A file read in text mode (newline=None): "\r\n" and a lone "\r" are
\* read as "\n".
RECURSIVE UniversalNewlines(_)
UniversalNewlines(x) ==
    IF x = <<>> THEN <<>>
    ELSE IF Len(x) >= 2 /\ x[1] = CR /\ x[2] = LF
         THEN <<LF>> \o UniversalNewlines(SubSeq(x, 3, Len(x)))
    ELSE IF x[1] = CR THEN <<LF>> \o UniversalNewlines(Tail(x))
    ELSE <<x[1]>> \o UniversalNewlines(Tail(x))

load_tweets_NoStrip(text) == UniversalNewlines(text)
\* open(path, "r", encoding="utf-8"); f.read().strip()
load_tweets(text) == Strip(UniversalNewlines(text))

\* os.getenv("GOOGLE_API_KEY"): unset ("NONE"), empty, or a key.
KeyValues == {"NONE", "", "AIza"}

MissingKey_OnlyNone(k) == k = "NONE"
\* if not key
MissingKey(k) == k \in {"NONE", ""}

\* The exceptions a run ends with; path is the file a message names.
Error(kind, msg, path) == [kind |-> kind, msg |-> msg, path |-> path]
NoError == Error("", "", "")
\* raise RuntimeError("Missing GOOGLE_API_KEY environment variable.")
ConfigError == Error("RuntimeError", "Missing GOOGLE_API_KEY environment variable.", "")
\* raise ValueError(f"Tweet file is empty: {tweets_path}")
EmptyError(path) == Error("ValueError", "Tweet file is empty: ", path)
\* open() of a path that does not exist
MissingFileError(path) == Error("FileNotFoundError", "No such file or directory: ", path)
\* page.goto fails: the timeline cannot be reached
NavigationError == Error("playwright.Error", "page.goto", "")
\* datetime.fromisoformat(...) / dt < cutoff raise inside scrape_last_hours
TimestampValueError == Error("ValueError", "Invalid isoformat string", "")
TimestampTypeError ==
    Error("TypeError", "can't compare offset-naive and offset-aware datetimes", "")
\* a query on an article raises (the element is gone from the page)
DomError == Error("playwright.Error", "query_selector", "")
\* f.write or write_text cannot encode the text
EncodeError == Error("UnicodeEncodeError", "surrogates not allowed", "")
\* generate_content (or resp.text) raises
GenerationError == Error("GenerationServiceError", "generate_content", "")

\* What model.generate_content yields: an exception, a response whose text
\* is None, or a response with text.
GenResults ==
    { [st |-> "error", text |-> <<>>],
      [st |-> "null", text |-> <<>>],
      [st |-> "text", text |-> <<" ", "p", LF>>],
      [st |-> "text", text |-> <<"q">>],
      [st |-> "text", text |-> <<"q", Surrogate>>] }

\* (resp.text or "").strip()
TextOf(res) == Strip(IF res.st = "text" THEN res.text ELSE <<>>)

\* "\n\n--- CHUNK SPLIT ---\n\n", with the marker line written "-".
ChunkSplit == <<LF, LF, "-", LF, LF>>

\* The request of summarize_chunks for chunk i of n: the prompt carries the
\* marker CHUNK i/n and the chunk between <<< and >>>.
MapRequest(i, n, ch) == [op |-> "map", i |-> i, n |-> n, body |-> ch]

\* The request of final_synthesis: the partials joined by the split marker.
ReduceRequest(partials) ==
    [op |-> "reduce", i |-> 0, n |-> Len(partials), body |-> Join(partials, ChunkSplit)]

AddOutput_Front(outputs, x) == <<x>> \o outputs
\* outputs.append(...)
AddOutput(outputs, x) == Append(outputs, x)

\* An exception of final_synthesis leaves summarize_tweets_to_md at once.
OnReduceError == "raised"

(***************************************************************************)
(* Values of the variables a specification does not use                    *)
(***************************************************************************)
ChunkIdle ==
    /\ c_pc = "idle" /\ s = <<>> /\ max_chars = 0 /\ max_chars2 = 0
    /\ groups = <<>> /\ groups2 = <<>>

ScrapeIdle ==
    /\ s_pc = "idle" /\ page = <<>> /\ hours_back = 0 /\ scroll = 0
    /\ arts = <<>> /\ rows = <<>> /\ seen = {} /\ shown = {} /\ out = <<>>

PipeIdle ==
    /\ pc = "idle" /\ entry = "" /\ key = "NONE"
    /\ corpus_file = NoFile /\ summary_file = NoFile /\ summary0 = NoFile
    /\ scraped = <<>> /\ max_chars_per_chunk = 0 /\ raw = <<>> /\ chunks = <<>>
    /\ per_chunk = <<>> /\ md = <<>> /\ io = <<>> /\ calls = <<>> /\ err = NoError

(***************************************************************************)
(* SpecChunk: chunk_text applied to every short text under two budgets     *)
(***************************************************************************)
InitChunk ==
    /\ c_pc = "call"
    /\ s \in SeqsUpTo(Chars, MaxLen)
    /\ max_chars \in 1..MaxBudget
    /\ max_chars2 \in max_chars..MaxBudget
    /\ groups = <<>> /\ groups2 = <<>>
    /\ ScrapeIdle /\ PipeIdle

\* chunk_text(s, max_chars) and chunk_text(s, max_chars2) return.
ChunkCall ==
    /\ c_pc = "call"
    /\ groups' = ChunkGroups(s, max_chars)
    /\ groups2' = ChunkGroups(s, max_chars2)
    /\ c_pc' = "done"
    /\ UNCHANGED <<s, max_chars, max_chars2, scrape_vars, pipe_vars>>

NextChunk == ChunkCall

SpecChunk == InitChunk /\ [][NextChunk]_vars

\* The chunk strings returned under the first budget.
ChunksOut == [i \in 1..Len(groups) |-> Concat(groups[i])]

(***************************************************************************)
(* SpecScrape: one run of scrape_last_hours                                *)
(***************************************************************************)
InitScrape ==
    /\ s_pc = "start"
    /\ page \in [Hrefs -> ItemAttrs]
    /\ hours_back \in 1..MaxHoursBack
    /\ scroll = 0 /\ arts = <<>> /\ rows = <<>> /\ seen = {} /\ shown = {} /\ out = <<>>
    /\ ChunkIdle /\ PipeIdle

\* Browser launch and page.goto; goto may fail and the exception leaves the run.
Navigate ==
    /\ s_pc = "start"
    /\ s_pc' \in {"loop", "nav_error"}
    /\ UNCHANGED <<page, hours_back, scroll, arts, rows, seen, shown, out,
                   chunk_vars, pipe_vars>>

\* arts = await page.query_selector_all(...): any articles, in any order,
\* with any item showing again.
QueryArticles ==
    /\ s_pc = "loop" /\ scroll < MaxScrolls
    /\ \E shownNow \in SeqsUpTo(Articles, MaxArts) :
         /\ arts' = shownNow
         /\ shown' = shown \cup {shownNow[i].href : i \in {j \in 1..Len(shownNow) : shownNow[j].link}}
    /\ s_pc' = "articles"
    /\ UNCHANGED <<page, hours_back, scroll, rows, seen, out, chunk_vars, pipe_vars>>

\* The article the inner loop is at.
Art == Head(arts)
ArtDt == page[Art.href].dt

NextArticle ==
    /\ arts' = Tail(arts)
    /\ UNCHANGED <<s_pc, page, hours_back, scroll, shown, out, chunk_vars, pipe_vars>>

\* if not link_el: continue
SkipNoLink ==
    /\ s_pc = "articles" /\ arts # <<>>
    /\ ~Art.link
    /\ NextArticle /\ UNCHANGED <<rows, seen>>

\* if not href or href in seen: continue
SkipSeen ==
    /\ s_pc = "articles" /\ arts # <<>>
    /\ Art.link /\ AlreadySeen(Art.href, seen)
    /\ NextArticle /\ UNCHANGED <<rows, seen>>

\* if not t_el: continue / if not dt_str: continue
SkipNoTime ==
    /\ s_pc = "articles" /\ arts # <<>>
    /\ Art.link /\ ~AlreadySeen(Art.href, seen)
    /\ ArtDt.k \in {"notime", "noattr"}
    /\ NextArticle /\ UNCHANGED <<rows, seen>>

\* datetime.fromisoformat raises ValueError on a string it cannot parse, and
\* dt < cutoff raises TypeError on a naive datetime; nothing catches either.
RaiseOnTimestamp ==
    /\ s_pc = "articles" /\ arts # <<>>
    /\ Art.link /\ ~AlreadySeen(Art.href, seen)
    /\ ArtDt.k \in {"bad", "naive"}
    /\ s_pc' = "item_error"
    /\ UNCHANGED <<page, hours_back, scroll, arts, rows, seen, shown, out,
                   chunk_vars, pipe_vars>>

\* A query on the article (query_selector, get_attribute, inner_text)
\* raises; nothing catches it.
RaiseOnQuery ==
    /\ s_pc = "articles" /\ arts # <<>>
    /\ s_pc' = "dom_error"
    /\ UNCHANGED <<page, hours_back, scroll, arts, rows, seen, shown, out,
                   chunk_vars, pipe_vars>>

\* if dt < cutoff: continue
SkipStale ==
    /\ s_pc = "articles" /\ arts # <<>>
    /\ Art.link /\ ~AlreadySeen(Art.href, seen)
    /\ ArtDt.k = "ok" /\ IsStale(ArtDt.t, Cutoff)
    /\ NextArticle /\ UNCHANGED <<rows, seen>>

\* rows.append({...}); seen.add(href)
AppendRow ==
    /\ s_pc = "articles" /\ arts # <<>>
    /\ Art.link /\ ~AlreadySeen(Art.href, seen)
    /\ ArtDt.k = "ok" /\ ~IsStale(ArtDt.t, Cutoff)
    /\ rows' = Append(rows, Row(Art.href, ArtDt.t, ItemText(page[Art.href].parts)))
    /\ seen' = seen \cup {Art.href}
    /\ NextArticle

\* page.mouse.wheel, wait_for_timeout: the next scroll iteration.
Wheel ==
    /\ s_pc = "articles" /\ arts = <<>>
    /\ scroll' = scroll + 1
    /\ s_pc' = "loop"
    /\ UNCHANGED <<page, hours_back, arts, rows, seen, shown, out, chunk_vars, pipe_vars>>

\* After MAX_SCROLLS iterations: browser.close(), dedupe, sort, return out.
ReturnOut ==
    /\ s_pc = "loop" /\ scroll = MaxScrolls
    /\ out' = SortDesc(Dedupe(rows))
    /\ s_pc' = "returned"
    /\ UNCHANGED <<page, hours_back, scroll, arts, rows, seen, shown, chunk_vars, pipe_vars>>

NextScrape ==
    \/ Navigate \/ QueryArticles
    \/ SkipNoLink \/ SkipSeen \/ SkipNoTime \/ RaiseOnTimestamp \/ RaiseOnQuery
    \/ SkipStale \/ AppendRow
    \/ Wheel \/ ReturnOut

SpecScrape == InitScrape /\ [][NextScrape]_vars

(***************************************************************************)
(* SpecPipe: main(), or summarize_tweets_to_md called on an existing file  *)
(***************************************************************************)
\* Corpora scrape_last_hours can return: deduplicated, newest first.
ScrapeReturns ==
    { SortDesc(Dedupe(rs)) :
        rs \in SeqsUpTo({Row("", t, x) : t \in {1, 2},
                                          x \in {<<>>, <<"a">>, <<"q", Surrogate>>}}, 2) }

\* Contents of a corpus file found on disk when a run starts.
CorpusTexts ==
    { <<>>, <<" ", LF>>, <<LF, LF>>,
      <<"a">>, <<"a", LF, LF, "\\xe9">>, <<"a", LF, LF, "\\xe9", LF, LF, "a", LF>>,
      <<"a", CR, LF, CR, LF, "a">>, <<"a", CR, CR, "a">>,
      <<"\f", "\\xa0">> }

InitPipe ==
    /\ entry \in {"main", "summarize_tweets_to_md"}
    /\ key \in KeyValues
    /\ summary0 \in {NoFile, FileOf(<<"o", "l", "d">>)}
    /\ summary_file = summary0
    /\ corpus_file \in {NoFile} \cup {FileOf(x) : x \in CorpusTexts}
    /\ \/ /\ entry = "main"
          /\ pc = "scrape"
          /\ max_chars_per_chunk = DefaultMaxChars
       \/ /\ entry = "summarize_tweets_to_md"
          /\ pc = "require"
          /\ max_chars_per_chunk \in {1, MaxBudget, DefaultMaxChars}
    /\ scraped = <<>> /\ raw = <<>> /\ chunks = <<>> /\ per_chunk = <<>> /\ md = <<>>
    /\ io = <<>> /\ calls = <<>> /\ err = NoError
    /\ ChunkIdle /\ ScrapeIdle

\* rows = await scrape_last_hours(USER, HOURS_BACK) returns.
MainScrape ==
    /\ pc = "scrape"
    /\ scraped' \in ScrapeReturns
    /\ io' = io \o <<"browser_launch", "goto", "scroll", "browser_close">>
    /\ pc' = "save"
    /\ UNCHANGED <<entry, key, corpus_file, summary_file, summary0, max_chars_per_chunk,
                   raw, chunks, per_chunk, md, calls, err, chunk_vars, scrape_vars>>

\* scrape_last_hours raises: the timeline could not be reached.
MainScrapeFails ==
    /\ pc = "scrape"
    /\ io' = io \o <<"browser_launch", "goto">>
    /\ err' = NavigationError
    /\ pc' = "raised_in_scrape"
    /\ UNCHANGED <<entry, key, corpus_file, summary_file, summary0, scraped,
                   max_chars_per_chunk, raw, chunks, per_chunk, md, calls,
                   chunk_vars, scrape_vars>>

\* scrape_last_hours raises inside the scroll loop, on one article.
MainScrapeItemError ==
    /\ pc = "scrape"
    /\ io' = io \o <<"browser_launch", "goto", "scroll">>
    /\ err' \in {TimestampValueError, TimestampTypeError, DomError}
    /\ pc' = "raised_in_scrape"
    /\ UNCHANGED <<entry, key, corpus_file, summary_file, summary0, scraped,
                   max_chars_per_chunk, raw, chunks, per_chunk, md, calls,
                   chunk_vars, scrape_vars>>

\* str.encode("utf-8") succeeds.
Encodable(x) == \A i \in 1..Len(x) : x[i] # Surrogate

\* The rows save_tweets_txt writes before f.write raises on a row whose
\* line cannot be encoded: all rows when every line can.
RECURSIVE WritableRows(_)
WritableRows(rs) ==
    IF rs = <<>> \/ ~Encodable(RowLine(Head(rs))) THEN <<>>
    ELSE <<Head(rs)>> \o WritableRows(Tail(rs))

\* save_tweets_txt(rows, OUT_TXT)
MainSave ==
    /\ pc = "save"
    /\ WritableRows(scraped) = scraped
    /\ corpus_file' = FileOf(save_tweets_txt(scraped))
    /\ io' = Append(io, "write_corpus")
    /\ pc' = "require"
    /\ UNCHANGED <<entry, key, summary_file, summary0, scraped, max_chars_per_chunk,
                   raw, chunks, per_chunk, md, calls, err, chunk_vars, scrape_vars>>

\* save_tweets_txt: open(path, "w") truncates the file, the lines before
\* the one that cannot be encoded are written, f.write raises
\* UnicodeEncodeError and the exception leaves main.
MainSaveFails ==
    /\ pc = "save"
    /\ WritableRows(scraped) # scraped
    /\ corpus_file' = FileOf(save_tweets_txt(WritableRows(scraped)))
    /\ io' = Append(io, "write_corpus")
    /\ err' = EncodeError
    /\ pc' = "raised_in_save"
    /\ UNCHANGED <<entry, key, summary_file, summary0, scraped, max_chars_per_chunk,
                   raw, chunks, per_chunk, md, calls, chunk_vars, scrape_vars>>

\* require_gemini() raises.
RequireGeminiRaises ==
    /\ pc = "require"
    /\ MissingKey(key)
    /\ err' = ConfigError
    /\ pc' = "raised"
    /\ UNCHANGED <<entry, key, corpus_file, summary_file, summary0, scraped,
                   max_chars_per_chunk, raw, chunks, per_chunk, md, io, calls,
                   chunk_vars, scrape_vars>>

\* require_gemini() configures the client and returns.
RequireGeminiOk ==
    /\ pc = "require"
    /\ ~MissingKey(key)
    /\ pc' = "load"
    /\ UNCHANGED <<entry, key, corpus_file, summary_file, summary0, scraped,
                   max_chars_per_chunk, raw, chunks, per_chunk, md, io, calls, err,
                   chunk_vars, scrape_vars>>

\* load_tweets: open() of a missing file raises.
LoadMissingFile ==
    /\ pc = "load"
    /\ ~corpus_file.exists
    /\ err' = MissingFileError(OUT_TXT)
    /\ pc' = "raised"
    /\ UNCHANGED <<entry, key, corpus_file, summary_file, summary0, scraped,
                   max_chars_per_chunk, raw, chunks, per_chunk, md, io, calls,
                   chunk_vars, scrape_vars>>

\* raw = load_tweets(tweets_path); if not raw: raise ValueError(...)
LoadEmpty ==
    /\ pc = "load"
    /\ corpus_file.exists
    /\ load_tweets(corpus_file.text) = <<>>
    /\ raw' = load_tweets(corpus_file.text)
    /\ io' = Append(io, "read_corpus")
    /\ err' = EmptyError(OUT_TXT)
    /\ pc' = "raised"
    /\ UNCHANGED <<entry, key, corpus_file, summary_file, summary0, scraped,
                   max_chars_per_chunk, chunks, per_chunk, md, calls,
                   chunk_vars, scrape_vars>>

\* raw = load_tweets(tweets_path); chunks = chunk_text(raw, max_chars=...)
LoadAndChunk ==
    /\ pc = "load"
    /\ corpus_file.exists
    /\ load_tweets(corpus_file.text) # <<>>
    /\ raw' = load_tweets(corpus_file.text)
    /\ chunks' = chunk_text(raw', max_chars_per_chunk)
    /\ io' = Append(io, "read_corpus")
    /\ pc' = "map"
    /\ UNCHANGED <<entry, key, corpus_file, summary_file, summary0, scraped,
                   max_chars_per_chunk, per_chunk, md, calls, err,
                   chunk_vars, scrape_vars>>

\* The request of the loop iteration summarize_chunks is at.
MapIndex == Len(per_chunk) + 1
CurrentMap == MapRequest(MapIndex, Len(chunks), chunks[MapIndex])

Called(req, res) == [req |-> req, res |-> res]

\* One iteration of summarize_chunks: generate_content returns, the
\* stripped text is appended.
MapCall ==
    /\ pc = "map" /\ MapIndex <= Len(chunks)
    /\ \E res \in {r \in GenResults : r.st # "error"} :
         /\ calls' = Append(calls, Called(CurrentMap, res))
         /\ per_chunk' = AddOutput(per_chunk, TextOf(res))
    /\ io' = Append(io, "generate")
    /\ UNCHANGED <<pc, entry, key, corpus_file, summary_file, summary0, scraped,
                   max_chars_per_chunk, raw, chunks, md, err, chunk_vars, scrape_vars>>

\* One iteration of summarize_chunks: generate_content raises.
MapCallFails ==
    /\ pc = "map" /\ MapIndex <= Len(chunks)
    /\ \E res \in {r \in GenResults : r.st = "error"} :
         calls' = Append(calls, Called(CurrentMap, res))
    /\ io' = Append(io, "generate")
    /\ err' = GenerationError
    /\ pc' = "raised"
    /\ UNCHANGED <<entry, key, corpus_file, summary_file, summary0, scraped,
                   max_chars_per_chunk, raw, chunks, per_chunk, md,
                   chunk_vars, scrape_vars>>

\* summarize_chunks returns outputs.
MapReturn ==
    /\ pc = "map" /\ MapIndex > Len(chunks)
    /\ pc' = "reduce"
    /\ UNCHANGED <<entry, key, corpus_file, summary_file, summary0, scraped,
                   max_chars_per_chunk, raw, chunks, per_chunk, md, io, calls, err,
                   chunk_vars, scrape_vars>>

\* md = final_synthesis(per_chunk, ...) returns.
ReduceCall ==
    /\ pc = "reduce"
    /\ \E res \in {r \in GenResults : r.st # "error"} :
         /\ calls' = Append(calls, Called(ReduceRequest(per_chunk), res))
         /\ md' = TextOf(res)
    /\ io' = Append(io, "generate")
    /\ pc' = "write"
    /\ UNCHANGED <<entry, key, corpus_file, summary_file, summary0, scraped,
                   max_chars_per_chunk, raw, chunks, per_chunk, err,
                   chunk_vars, scrape_vars>>

\* final_synthesis raises.
ReduceCallFails ==
    /\ pc = "reduce"
    /\ \E res \in {r \in GenResults : r.st = "error"} :
         calls' = Append(calls, Called(ReduceRequest(per_chunk), res))
    /\ io' = Append(io, "generate")
    /\ err' = GenerationError
    /\ pc' = OnReduceError
    /\ UNCHANGED <<entry, key, corpus_file, summary_file, summary0, scraped,
                   max_chars_per_chunk, raw, chunks, per_chunk, md,
                   chunk_vars, scrape_vars>>

\* Path(output_md).write_text(md); return
WriteSummary ==
    /\ pc = "write"
    /\ Encodable(md)
    /\ summary_file' = FileOf(md)
    /\ io' = Append(io, "write_summary")
    /\ pc' = "done"
    /\ UNCHANGED <<entry, key, corpus_file, summary0, scraped, max_chars_per_chunk,
                   raw, chunks, per_chunk, md, calls, err, chunk_vars, scrape_vars>>

\* Path(output_md).write_text(md): open(..., "w") truncates the file, then
\* f.write(md) raises UnicodeEncodeError.
WriteSummaryFails ==
    /\ pc = "write"
    /\ ~Encodable(md)
    /\ summary_file' = FileOf(<<>>)
    /\ io' = Append(io, "write_summary")
    /\ err' = EncodeError
    /\ pc' = "raised"
    /\ UNCHANGED <<entry, key, corpus_file, summary0, scraped, max_chars_per_chunk,
                   raw, chunks, per_chunk, md, calls, chunk_vars, scrape_vars>>

NextPipe ==
    \/ MainScrape \/ MainScrapeFails \/ MainScrapeItemError \/ MainSave \/ MainSaveFails
    \/ RequireGeminiRaises \/ RequireGeminiOk
    \/ LoadMissingFile \/ LoadEmpty \/ LoadAndChunk
    \/ MapCall \/ MapCallFails \/ MapReturn
    \/ ReduceCall \/ ReduceCallFails
    \/ WriteSummary \/ WriteSummaryFails

SpecPipe == InitPipe /\ [][NextPipe]_vars

\* The whole program: each of the three parts, run on its own.
Init == InitChunk \/ InitScrape \/ InitPipe
Next == NextChunk \/ NextScrape \/ NextPipe
Spec == Init /\ [][Next]_vars

(***************************************************************************)
(* Properties of scrape_last_hours (SpecScrape)                            *)
(***************************************************************************)
\* The items that showed in some iteration with a timestamp at or after the cutoff.
InWindowShown == {h \in shown : page[h].dt.k = "ok" /\ page[h].dt.t >= Cutoff}

\* The record (instant, text) an item yields.
RecordOf(h) == <<page[h].dt.t, ItemText(page[h].parts)>>
OutRecord(i) == <<out[i].time.instant, out[i].text>>

\* C1 as claimed: when scrape_last_hours returns, the corpus holds exactly
\* the items that showed in some iteration and are not older than the
\* cutoff, one record for each of them: none older, none missing.
C1_ExactlyInWindowItems ==
    s_pc = "returned" =>
        /\ {out[i].href : i \in 1..Len(out)} = InWindowShown
        /\ Len(out) = Cardinality(InWindowShown)

\* C1 amended: when scrape_last_hours returns, the records (timestamp, text)
\* of the corpus are exactly the records of the items that showed in some
\* iteration and are not older than the cutoff, each record once: items
\* with different identifiers but equal timestamp and text share one record.
C1_ExactlyInWindowRecords ==
    s_pc = "returned" =>
        /\ {OutRecord(i) : i \in 1..Len(out)} = {RecordOf(h) : h \in InWindowShown}
        /\ \A i, j \in 1..Len(out) : OutRecord(i) = OutRecord(j) => i = j
        /\ \A i \in 1..Len(out) : out[i].time.instant >= Cutoff

\* Two in-window items with equal timestamp and text, a stale item or none,
\* and a returned corpus that holds the one record the two share.
C1_Witness ==
    /\ s_pc = "returned"
    /\ \E h1, h2 \in InWindowShown : h1 # h2 /\ RecordOf(h1) = RecordOf(h2)
    /\ Len(out) = 1

\* C6: no two retained rows come from the same identifier at any point of
\* the collect loop, and the returned corpus holds exactly one record for
\* every identifier that was retained, however often it showed.
C6_OneRecordPerIdentifier ==
    /\ \A i, j \in 1..Len(rows) : rows[i].href = rows[j].href => i = j
    /\ {rows[i].href : i \in 1..Len(rows)} = seen
    /\ s_pc = "returned" =>
         \A h \in seen : Cardinality({i \in 1..Len(out) : OutRecord(i) = RecordOf(h)}) = 1

\* A retained item shows again in a later iteration, together with other rows.
C6_Witness ==
    /\ s_pc = "articles" /\ scroll >= 1 /\ arts # <<>>
    /\ Art.link /\ Art.href \in seen
    /\ Len(rows) = 2

\* C10 as claimed: an item whose timestamp does not parse as an ISO-8601
\* instant is skipped and the run goes on: no run ends in an exception
\* raised for one item.
C10_BadItemNeverAborts == s_pc # "item_error"

(***************************************************************************)
(* Properties of chunk_text (SpecChunk)                                    *)
(***************************************************************************)
\* C2 as claimed: the chunks concatenated in order are the input text.
C2_RoundTripExact ==
    c_pc = "done" => Concat(ChunksOut) = s

\* C2 amended: the chunks concatenated in order are the input text with
\* every "\r\n" replaced by "\n", followed by one separator "\n\n".
C2_RoundTripNormalized ==
    c_pc = "done" => Concat(ChunksOut) = ReplaceCRLF(s) \o SEP

\* A text with a "\r\n" that was cut into several chunks.
C2_Witness ==
    /\ c_pc = "done" /\ Len(groups) >= 2
    /\ \E i \in 1..(Len(s) - 1) : s[i] = CR /\ s[i + 1] = LF

\* C7 as claimed: every chunk is at most max_chars bytes long when
\* serialized, unless it is one block that alone is larger.
C7_ByteBound ==
    c_pc = "done" =>
        \A i \in 1..Len(groups) :
            \/ ByteLen(Concat(groups[i])) <= max_chars
            \/ Len(groups[i]) = 1 /\ ByteLen(groups[i][1]) > max_chars

\* C7 amended: every chunk is at most max_chars characters long, unless it
\* is one block that with its separator is longer than max_chars; such a
\* block is a chunk of its own, unsplit.
C7_CharBound ==
    c_pc = "done" =>
        \A i \in 1..Len(groups) :
            \/ PyLen(Concat(groups[i])) <= max_chars
            \/ Len(groups[i]) = 1 /\ PyLen(groups[i][1]) > max_chars

\* One chunk of several blocks within the budget, or an oversized block
\* alone, next to other chunks.
C7_Witness ==
    /\ c_pc = "done" /\ Len(groups) >= 2
    /\ \E i \in 1..Len(groups) : Len(groups[i]) = 1 /\ PyLen(groups[i][1]) > max_chars
    /\ \E i \in 1..Len(groups) : PyLen(Concat(groups[i])) = max_chars

\* C9: a smaller budget never yields fewer chunks (max_chars <= max_chars2).
C9_CountMonotone ==
    c_pc = "done" => Len(groups) >= Len(groups2)

\* A text the smaller budget cuts into more chunks than the larger one.
C9_Witness ==
    /\ c_pc = "done" /\ max_chars < max_chars2
    /\ Len(groups) > Len(groups2) /\ Len(groups2) >= 2

(***************************************************************************)
(* Properties of main and summarize_tweets_to_md (SpecPipe)                *)
(***************************************************************************)
Did(event) == \E i \in 1..Len(io) : io[i] = event
\* main ends by an exception of scrape_last_hours or of save_tweets_txt, or
\* as summarize_tweets_to_md ends.
Ended == pc \in {"done", "raised", "raised_in_scrape", "raised_in_save"}
\* summarize_tweets_to_md has been called.
SummarizeEntered == pc \in {"require", "load", "map", "reduce", "write", "done", "raised"}
CorpusEmpty == corpus_file.exists /\ Strip(corpus_file.text) = <<>>
CallFailed == \E j \in 1..Len(calls) : calls[j].res.st = "error"

\* C3 as claimed: when the credential is absent the configuration error is
\* raised before the collector or the summarizer has done any I/O.
C3_ConfigErrorBeforeAnyIO ==
    err = ConfigError => io = <<>>

\* C3 amended: with the credential absent no request is ever sent to the
\* generation service and no summary is written, and a run that enters
\* summarize_tweets_to_md ends with the configuration error; in main that
\* error is raised after the collector has launched the browser,
\* navigated, scrolled and the corpus file has been written.
C3_ConfigErrorBeforeGeneration ==
    /\ key \in {"NONE", ""} =>
         /\ calls = <<>> /\ ~Did("generate") /\ ~Did("write_summary")
         /\ summary_file = summary0
         /\ (Ended /\ SummarizeEntered) => err = ConfigError
    /\ (err = ConfigError /\ entry = "main") =>
         /\ io = <<"browser_launch", "goto", "scroll", "browser_close", "write_corpus">>
         /\ corpus_file.exists

\* main has ended with the configuration error, the key being set but empty.
C3_Witness ==
    /\ pc = "raised" /\ err = ConfigError /\ entry = "main" /\ key = ""
    /\ Did("write_corpus")

\* C4 as claimed: with an empty or blank corpus file at the start of
\* summarize_tweets_to_md the run ends with the
\* error that names the corpus path, without a request to the generation
\* service and without a summary file written.
C4_EmptyCorpusErrorNamesPath ==
    (CorpusEmpty /\ SummarizeEntered /\ Ended) =>
        /\ err = EmptyError(OUT_TXT)
        /\ calls = <<>> /\ ~Did("generate")
        /\ ~Did("write_summary") /\ summary_file = summary0

\* C4 amended: with an empty or blank corpus file at the start of
\* summarize_tweets_to_md no request is sent to the
\* generation service and no summary file is written, and the run ends with
\* the error that names the corpus path when the credential is present,
\* with the configuration error when it is absent.
C4_EmptyCorpusReported ==
    (CorpusEmpty /\ SummarizeEntered) =>
        /\ calls = <<>> /\ ~Did("generate")
        /\ ~Did("write_summary") /\ summary_file = summary0
        /\ pc # "done"
        /\ Ended => err = (IF key \in {"NONE", ""} THEN ConfigError ELSE EmptyError(OUT_TXT))

\* A corpus file of blanks only was read and reported as empty.
C4_Witness ==
    /\ pc = "raised" /\ err = EmptyError(OUT_TXT)
    /\ corpus_file.text # <<>> /\ Did("read_corpus")

\* C5: the requests are sent in chunk order, request i carrying chunk i and
\* the marker i/n; partial i is the stripped answer to request i; the reduce
\* request is sent once, after all n map requests were answered, with the
\* partials joined in that order.
C5_MapReduceOrder ==
    LET n == Len(chunks) IN
    /\ Len(calls) <= n + 1
    /\ \A j \in 1..Len(calls) :
         IF j <= n
         THEN calls[j].req = MapRequest(j, n, chunks[j])
         ELSE /\ calls[j].req.op = "reduce" /\ calls[j].req.n = n
              /\ \A i \in 1..n : calls[i].res.st # "error"
              /\ calls[j].req.body = Join([i \in 1..n |-> TextOf(calls[i].res)], ChunkSplit)
    /\ Len(per_chunk) <= n
    /\ \A i \in 1..Len(per_chunk) : i <= Len(calls) /\ per_chunk[i] = TextOf(calls[i].res)
    /\ pc = "reduce" => Len(calls) = n /\ Len(per_chunk) = n
    /\ pc \in {"write", "done"} => Len(calls) = n + 1 /\ Len(per_chunk) = n

\* A run over three chunks with different partials has finished.
C5_Witness ==
    /\ pc = "done" /\ Len(chunks) = 3
    /\ per_chunk[1] # per_chunk[2] /\ per_chunk[2] # per_chunk[3]

\* C8 as claimed: in a run where a map or the reduce request failed the
\* summary file is neither written nor changed; the summary file is written
\* only after the reduce request was answered, and then it holds exactly
\* that answer (stripped, as final_synthesis returns it).
C8_AllOrNothing ==
    /\ CallFailed => ~Did("write_summary") /\ summary_file = summary0
    /\ (Did("write_summary") \/ summary_file # summary0) =>
         /\ calls # <<>>
         /\ calls[Len(calls)].req.op = "reduce"
         /\ calls[Len(calls)].res.st # "error"
         /\ summary_file = FileOf(TextOf(calls[Len(calls)].res))

====
